---- MODULE Spec2Model ----
\* Model of ilusiona_gen_download.py: generation of 14-digit codes with a GS1
\* Mod 10 check digit, and the download of one PNG per code with
\* cache check, temp file, PNG signature validation, retries and backoff.
\*
\* Strings and byte strings are sequences of character codes / byte values,
\* so that ord(), slicing, zero padding and the 8-byte signature comparison
\* are computed rather than assumed.
EXTENDS Integers, Sequences, FiniteSets, TLC

VARIABLES
    \* ---- main() ----
    mpc,            \* position of the caller: main() or the test harness
    fixed,          \* main: fixed (6 digits)
    start_serial,   \* main: start_serial
    qty,            \* main: qty
    i,              \* main: loop variable of the generation loop
    generated,      \* main: generated (list of 14-character strings)
    txt,            \* lines written to ilusiona_<ts>.txt
    total, ok, skip, fail,   \* main: download counters
    idx,            \* main: position of "for code in generated" (1-based)
    \* ---- download_png() frame ----
    dpc,            \* position inside download_png
    code,           \* parameter code
    out_file,       \* parameter out_file
    retries,        \* parameter retries
    attempt,        \* loop variable attempt
    last_err,       \* local last_err
    data,           \* local data (response body)
    result,         \* returned (ok, mensaje)
    \* ---- the world ----
    fs,             \* filesystem: path |-> content, for the existing files
    env,            \* what the transport may answer in this run
    faults,         \* how many more filesystem operations may fail in this run
    \* ---- observation (history) ----
    log,            \* events of the current download_png call
    fs0,            \* filesystem at the entry of the current call
    outcomes,       \* results returned by the calls so far, in order
    \* ---- gs1_mod10_check_digit applied on its own ----
    number_str,     \* the argument
    crc             \* what the call produced

mainVars  == <<mpc, fixed, start_serial, qty, i, generated, txt,
               total, ok, skip, fail, idx>>
frameVars == <<dpc, code, out_file, retries, attempt, last_err, data, result>>
worldVars == <<fs, env, faults>>
histVars  == <<log, fs0, outcomes>>
crcVars   == <<number_str, crc>>
vars == <<mainVars, frameVars, worldVars, histVars, crcVars>>

----------------------------------------------------------------------------
\* Bounds of the model.

MaxRetries == 2      \* the harness calls download_png with retries in 0..MaxRetries
MaxFaults  == 1      \* filesystem operations that may fail in one run
MaxCalls   == 2      \* the harness calls download_png at most MaxCalls times
MaxQty     == 2      \* main: qty in 1..MaxQty
MaxLen     == 3      \* check digit on its own: strings of up to MaxLen characters
ChunkSize  == 4      \* bytes that reach the temp file per write step

----------------------------------------------------------------------------
\* Characters, strings, formatting.

Min(a, b) == IF a < b THEN a ELSE b

\* ord("0")
ORD_ZERO == 48

\* The ASCII digits "0".."9" as character codes.
DigitChars == 48..57

\* str.isdigit() on the modelled (ASCII) alphabet: non-empty, all digits.
isdigit(s) == Len(s) > 0 /\ \A k \in 1..Len(s) : s[k] \in DigitChars

\* reversed(s)
reversed(s) == [k \in 1..Len(s) |-> s[Len(s) + 1 - k]]

\* str(n) for n >= 0: the decimal digits, most significant first.
RECURSIVE str(_)
str(n) == IF n < 10 THEN <<ORD_ZERO + n>>
          ELSE Append(str(n \div 10), ORD_ZERO + (n % 10))

\* f"{n:0{width}d}": at least width characters, zero-padded on the left.
RECURSIVE zfill(_, _)
zfill(s, width) == IF Len(s) >= width THEN s ELSE zfill(<<ORD_ZERO>> \o s, width)

\* The format without the zero fill.
fmt_nopad(n, width) == str(n)

fmt(n, width) == zfill(str(n), width)

----------------------------------------------------------------------------
\* gs1_mod10_check_digit (lines 43-56).

\* The for loop of lines 52-55 over the reversed string, from position k on.
RECURSIVE gs1_loop(_, _, _, _)
gs1_loop(rev, k, tot, weight) ==
    IF k > Len(rev) THEN tot
    ELSE LET d == rev[k] - ORD_ZERO
         IN  gs1_loop(rev, k + 1, tot + d * weight, IF weight = 3 THEN 1 ELSE 3)

\* gs1_mod10_check_digit with the weights swapped: the rightmost digit
\* weighs 1.
gs1_mod10_check_digit_w1(s) ==
    LET tot == gs1_loop(reversed(s), 1, 0, 1)
    IN  str((10 - (tot % 10)) % 10)

\* gs1_mod10_check_digit without the reversal: the weights 3,1,3,... run from
\* the leftmost digit.
gs1_mod10_check_digit_unreversed(s) ==
    LET tot == gs1_loop(s, 1, 0, 3)
    IN  str((10 - (tot % 10)) % 10)

gs1_mod10_check_digit(s) ==
    LET tot == gs1_loop(reversed(s), 1, 0, 3)
    IN  str((10 - (tot % 10)) % 10)

----------------------------------------------------------------------------
\* Paths and files.

DOT_SLASH == <<46, 47>>                 \* "./"
DOT_PNG   == <<46, 112, 110, 103>>      \* ".png"
DOT_TMP   == <<46, 116, 109, 112>>      \* ".tmp"

\* b"\x89PNG\r\n\x1a\n"
PNG_SIG == <<137, 80, 78, 71, 13, 10, 26, 10>>

exists(f, p) == p \in DOMAIN f

WriteFile(f, p, c) == [q \in (DOMAIN f) \cup {p} |-> IF q = p THEN c ELSE f[q]]

RemoveFile(f, p) == [q \in (DOMAIN f) \ {p} |-> f[q]]

\* f.read(8): the first 8 bytes, or fewer when the file is shorter.
read8(c) == SubSeq(c, 1, Min(8, Len(c)))

\* is_png_file when the file can be read (lines 106-108).
is_png_content(c) == read8(c) = PNG_SIG

\* tmp_file = out_file + ".tmp" (line 124)
tmp_of(p) == p \o DOT_TMP

tmp_file == tmp_of(out_file)

----------------------------------------------------------------------------
\* Response bodies and errors the environment may produce.

PNG_A    == PNG_SIG \o <<0, 13>>             \* a PNG: signature and more bytes
PNG_B    == PNG_SIG \o <<7>>                 \* another PNG
PNG_BARE == PNG_SIG                          \* exactly the signature
HTML     == <<60, 104, 116, 109, 108, 62>>   \* "<html>": shorter than 8 bytes
TRUNC    == SubSeq(PNG_SIG, 1, 7)            \* 7 bytes of the signature
BAD_SIG  == <<137, 80, 78, 71, 13, 10, 26, 13, 0>>  \* 8th byte differs
EMPTY    == <<>>

AllBodies == {PNG_A, PNG_BARE, TRUNC, BAD_SIG, EMPTY}

TransportErrors == {"timed out", "HTTP Error 503"}

NoResult == [ok |-> FALSE, msg |-> <<"none">>]

\* One observed event of the current call.
Ev(kind, e) == [ev |-> kind, n |-> attempt, err |-> e, body |-> <<>>]

\* The event of a request that was answered with body b.
EvBody(b) == [ev |-> "req_body", n |-> attempt, err |-> "", body |-> b]

----------------------------------------------------------------------------
\* download_png (lines 113-166), one action per step.

\* download_png_cache_check with the cached file's content validated: a
\* pre-existing non-PNG destination is fetched again.
download_png_cache_check_validating ==
    /\ dpc = "check"
    /\ IF exists(fs, out_file) /\ is_png_content(fs[out_file])
       THEN /\ result' = [ok |-> TRUE, msg |-> <<"OK (ya existe)", out_file>>]
            /\ dpc' = "ret"
            /\ UNCHANGED <<attempt, last_err>>
       ELSE /\ last_err' = ""
            /\ attempt' = 1
            /\ dpc' = "request"
            /\ UNCHANGED result
    /\ UNCHANGED <<code, out_file, retries, data>>
    /\ UNCHANGED <<mainVars, worldVars, histVars, crcVars>>

\* download_png_cache_check looking at the temp path instead of the
\* destination.
download_png_cache_check_tmp ==
    /\ dpc = "check"
    /\ IF exists(fs, tmp_file) /\ Len(fs[tmp_file]) > 0
       THEN /\ result' = [ok |-> TRUE, msg |-> <<"OK (ya existe)", out_file>>]
            /\ dpc' = "ret"
            /\ UNCHANGED <<attempt, last_err>>
       ELSE /\ last_err' = ""
            /\ attempt' = 1
            /\ dpc' = "request"
            /\ UNCHANGED result
    /\ UNCHANGED <<code, out_file, retries, data>>
    /\ UNCHANGED <<mainVars, worldVars, histVars, crcVars>>

\* Lines 120-133: the cache check; otherwise the loop starts with attempt 1.
download_png_cache_check ==
    /\ dpc = "check"
    /\ IF exists(fs, out_file) /\ Len(fs[out_file]) > 0
       THEN /\ result' = [ok |-> TRUE, msg |-> <<"OK (ya existe)", out_file>>]
            /\ dpc' = "ret"
            /\ UNCHANGED <<attempt, last_err>>
       ELSE /\ last_err' = ""
            /\ attempt' = 1
            /\ dpc' = "request"
            /\ UNCHANGED result
    /\ UNCHANGED <<code, out_file, retries, data>>
    /\ UNCHANGED <<mainVars, worldVars, histVars, crcVars>>

\* Lines 135-137: urlopen and resp.read(); an exception goes to lines 155-156.
download_png_request ==
    /\ dpc = "request"
    /\ \/ \E e \in env.errors :
            /\ last_err' = e
            /\ dpc' = "except"
            /\ log' = Append(log, Ev("req_err", e))
            /\ UNCHANGED data
       \/ \E b \in env.bodies :
            /\ data' = b
            /\ dpc' = "open"
            /\ log' = Append(log, EvBody(b))
            /\ UNCHANGED last_err
    /\ UNCHANGED <<code, out_file, retries, attempt, result>>
    /\ UNCHANGED <<mainVars, worldVars, fs0, outcomes, crcVars>>

\* Line 140: open(tmp_file, "wb") creates or truncates the temp file.
download_png_open_tmp ==
    /\ dpc = "open"
    /\ \/ /\ fs' = WriteFile(fs, tmp_file, <<>>)
          /\ dpc' = "write"
          /\ UNCHANGED <<last_err, log, faults>>
       \/ /\ faults > 0
          /\ faults' = faults - 1
          /\ last_err' = "Permission denied"
          /\ dpc' = "except"
          /\ log' = Append(log, Ev("fault_open", "Permission denied"))
          /\ UNCHANGED fs
    /\ UNCHANGED <<code, out_file, retries, attempt, data, result>>
    /\ UNCHANGED <<mainVars, env, fs0, outcomes, crcVars>>

\* Line 141 and the end of the with block: the bytes reach the file in
\* order, so the file holds a prefix of data until the write is complete.
download_png_write ==
    /\ dpc = "write"
    /\ \/ /\ Len(fs[tmp_file]) < Len(data)
          /\ fs' = WriteFile(fs, tmp_file,
                       SubSeq(data, 1, Min(Len(fs[tmp_file]) + ChunkSize, Len(data))))
          /\ UNCHANGED <<dpc, last_err, log, faults>>
       \/ /\ Len(fs[tmp_file]) = Len(data)
          /\ dpc' = "validate"
          /\ UNCHANGED <<fs, last_err, log, faults>>
       \/ /\ faults > 0
          /\ faults' = faults - 1
          /\ last_err' = "No space left on device"
          /\ dpc' = "except"
          /\ log' = Append(log, Ev("fault_write", "No space left on device"))
          /\ UNCHANGED fs
    /\ UNCHANGED <<code, out_file, retries, attempt, data, result>>
    /\ UNCHANGED <<mainVars, env, fs0, outcomes, crcVars>>

\* download_png_validate comparing only the first 7 bytes of the signature.
download_png_validate_short ==
    /\ dpc = "validate"
    /\ \/ /\ dpc' = IF SubSeq(read8(fs[tmp_file]), 1, Min(7, Len(fs[tmp_file])))
                        = SubSeq(PNG_SIG, 1, 7)
                     THEN "replace" ELSE "remove_bad"
          /\ UNCHANGED <<log, faults>>
       \/ /\ faults > 0
          /\ faults' = faults - 1
          /\ dpc' = "remove_bad"
          /\ log' = Append(log, Ev("fault_read", ""))
    /\ UNCHANGED <<code, out_file, retries, attempt, last_err, data, result>>
    /\ UNCHANGED <<mainVars, fs, env, fs0, outcomes, crcVars>>

\* Line 144 with is_png_file (lines 103-110): an OSError while reading
\* counts as "not a PNG".
download_png_validate ==
    /\ dpc = "validate"
    /\ \/ /\ dpc' = IF is_png_content(fs[tmp_file]) THEN "replace" ELSE "remove_bad"
          /\ UNCHANGED <<log, faults>>
       \/ /\ faults > 0
          /\ faults' = faults - 1
          /\ dpc' = "remove_bad"
          /\ log' = Append(log, Ev("fault_read", ""))
    /\ UNCHANGED <<code, out_file, retries, attempt, last_err, data, result>>
    /\ UNCHANGED <<mainVars, fs, env, fs0, outcomes, crcVars>>

\* download_png_replace copying instead of renaming: the temp file stays.
download_png_replace_copying ==
    /\ dpc = "replace"
    /\ \/ /\ fs' = WriteFile(fs, out_file, fs[tmp_file])
          /\ result' = [ok |-> TRUE, msg |-> <<"OK", out_file>>]
          /\ dpc' = "ret"
          /\ UNCHANGED <<last_err, log, faults>>
       \/ /\ faults > 0
          /\ faults' = faults - 1
          /\ last_err' = "Read-only file system"
          /\ dpc' = "except"
          /\ log' = Append(log, Ev("fault_replace", "Read-only file system"))
          /\ UNCHANGED <<fs, result>>
    /\ UNCHANGED <<code, out_file, retries, attempt, data>>
    /\ UNCHANGED <<mainVars, env, fs0, outcomes, crcVars>>

\* Lines 145-146: os.replace(tmp_file, out_file), then return True.
download_png_replace ==
    /\ dpc = "replace"
    /\ \/ /\ fs' = WriteFile(RemoveFile(fs, tmp_file), out_file, fs[tmp_file])
          /\ result' = [ok |-> TRUE, msg |-> <<"OK", out_file>>]
          /\ dpc' = "ret"
          /\ UNCHANGED <<last_err, log, faults>>
       \/ /\ faults > 0
          /\ faults' = faults - 1
          /\ last_err' = "Read-only file system"
          /\ dpc' = "except"
          /\ log' = Append(log, Ev("fault_replace", "Read-only file system"))
          /\ UNCHANGED <<fs, result>>
    /\ UNCHANGED <<code, out_file, retries, attempt, data>>
    /\ UNCHANGED <<mainVars, env, fs0, outcomes, crcVars>>

\* download_png_remove_bad reporting the failure like a transport error, so
\* that the loop goes on.
download_png_remove_bad_retrying ==
    /\ dpc = "remove_bad"
    /\ \/ /\ fs' = RemoveFile(fs, tmp_file)
          /\ UNCHANGED <<log, faults>>
       \/ /\ faults > 0
          /\ faults' = faults - 1
          /\ log' = Append(log, Ev("fault_remove", ""))
          /\ UNCHANGED fs
    /\ last_err' = "no parece PNG"
    /\ dpc' = "sleep"
    /\ UNCHANGED <<code, out_file, retries, attempt, data, result>>
    /\ UNCHANGED <<mainVars, env, fs0, outcomes, crcVars>>

\* Lines 147-153: remove the temp file (an OSError is ignored), return False.
download_png_remove_bad ==
    /\ dpc = "remove_bad"
    /\ \/ /\ fs' = RemoveFile(fs, tmp_file)
          /\ UNCHANGED <<log, faults>>
       \/ /\ faults > 0
          /\ faults' = faults - 1
          /\ log' = Append(log, Ev("fault_remove", ""))
          /\ UNCHANGED fs
    /\ result' = [ok |-> FALSE, msg |-> <<"ERROR: descargado pero no parece PNG", code>>]
    /\ dpc' = "ret"
    /\ UNCHANGED <<code, out_file, retries, attempt, last_err, data>>
    /\ UNCHANGED <<mainVars, env, fs0, outcomes, crcVars>>

\* download_png_except without the removal of the temp file.
download_png_except_keeping ==
    /\ dpc = "except"
    /\ dpc' = IF attempt < (retries + 2) THEN "sleep" ELSE "next"
    /\ UNCHANGED <<code, out_file, retries, attempt, last_err, data, result>>
    /\ UNCHANGED <<mainVars, worldVars, histVars, crcVars>>

\* Lines 157-162: the except handler removes the temp file if it exists
\* (an OSError is ignored) and tests "attempt < (retries + 2)".
download_png_except ==
    /\ dpc = "except"
    /\ IF exists(fs, tmp_file)
       THEN \/ /\ fs' = RemoveFile(fs, tmp_file)
               /\ UNCHANGED <<log, faults>>
            \/ /\ faults > 0
               /\ faults' = faults - 1
               /\ log' = Append(log, Ev("fault_remove", ""))
               /\ UNCHANGED fs
       ELSE UNCHANGED <<fs, log, faults>>
    /\ dpc' = IF attempt < (retries + 2) THEN "sleep" ELSE "next"
    /\ UNCHANGED <<code, out_file, retries, attempt, last_err, data, result>>
    /\ UNCHANGED <<mainVars, env, fs0, outcomes, crcVars>>

\* Lines 163-164: time.sleep(sleep_s); continue.
download_png_sleep ==
    /\ dpc = "sleep"
    /\ log' = Append(log, Ev("sleep", ""))
    /\ dpc' = "next"
    /\ UNCHANGED <<code, out_file, retries, attempt, last_err, data, result>>
    /\ UNCHANGED <<mainVars, worldVars, fs0, outcomes, crcVars>>

\* download_png_next with range(1, retries + 1): one attempt fewer.
download_png_next_short ==
    /\ dpc = "next"
    /\ IF attempt + 1 < retries + 1
       THEN /\ attempt' = attempt + 1
            /\ dpc' = "request"
            /\ UNCHANGED result
       ELSE /\ result' = [ok |-> FALSE,
                          msg |-> <<"ERROR: fallo descargando", code, last_err>>]
            /\ dpc' = "ret"
            /\ UNCHANGED attempt
    /\ UNCHANGED <<code, out_file, retries, last_err, data>>
    /\ UNCHANGED <<mainVars, worldVars, histVars, crcVars>>

\* Line 133: the next value of range(1, retries + 2), or, when the range is
\* used up, line 166.
download_png_next ==
    /\ dpc = "next"
    /\ IF attempt + 1 < retries + 2
       THEN /\ attempt' = attempt + 1
            /\ dpc' = "request"
            /\ UNCHANGED result
       ELSE /\ result' = [ok |-> FALSE,
                          msg |-> <<"ERROR: fallo descargando", code, last_err>>]
            /\ dpc' = "ret"
            /\ UNCHANGED attempt
    /\ UNCHANGED <<code, out_file, retries, last_err, data>>
    /\ UNCHANGED <<mainVars, worldVars, histVars, crcVars>>

----------------------------------------------------------------------------
\* What a caller has seen of a call when it returns: the arguments, the
\* returned pair, whether every request was answered with a PNG, and whether
\* every filesystem operation succeeded.
Outcome ==
    [code     |-> code,
     out_file |-> out_file,
     res      |-> result,
     allpng   |-> \A k \in 1..Len(log) :
                     /\ log[k].ev # "req_err"
                     /\ log[k].ev = "req_body" => is_png_content(log[k].body),
     nofault  |-> \A k \in 1..Len(log) : log[k].ev \in {"req_err", "req_body", "sleep"}]

----------------------------------------------------------------------------
\* A caller of download_png on its own: it calls download_png(code, out_file,
\* retries = r) on one destination, up to MaxCalls times in a row, against
\* any pre-existing destination and temp file.

\* "12345610105000", the example code.
EXAMPLE_13 == <<49, 50, 51, 52, 53, 54, 49, 48, 49, 48, 53, 48, 48>>

\* png_file = f"./{code}.png" (line 221)
png_path(c) == DOT_SLASH \o c \o DOT_PNG

\* The files that may exist before a call: nothing, an empty file, a PNG or
\* something else at the destination; nothing or a stale file at the temp path.
PreDest == {<<>>, PNG_B, HTML}
PreTmp  == {TRUNC}

InitialFs(p) ==
    { [q \in {} |-> <<>>] }
    \cup { WriteFile([q \in {} |-> <<>>], p, c) : c \in PreDest }
    \cup { WriteFile([q \in {} |-> <<>>], tmp_of(p), t) : t \in PreTmp }
    \cup { WriteFile(WriteFile([q \in {} |-> <<>>], p, c), tmp_of(p), t) :
              c \in PreDest, t \in PreTmp }

MainIdle ==
    /\ fixed = <<>> /\ start_serial = 0 /\ qty = 0 /\ i = 0
    /\ generated = <<>> /\ txt = <<>>
    /\ total = 0 /\ ok = 0 /\ skip = 0 /\ fail = 0 /\ idx = 0

FrameIdle ==
    /\ dpc = "idle" /\ attempt = 0 /\ last_err = "" /\ data = <<>>
    /\ result = NoResult

CrcIdle == number_str = <<>> /\ crc = [called |-> FALSE, raised |-> FALSE, value |-> <<>>]

InitFetch ==
    /\ mpc = "harness"
    /\ MainIdle
    /\ FrameIdle
    /\ code = EXAMPLE_13 \o gs1_mod10_check_digit(EXAMPLE_13)
    /\ out_file = png_path(code)
    /\ retries \in 0..MaxRetries
    /\ fs \in InitialFs(out_file)
    /\ env = [errors |-> TransportErrors, bodies |-> AllBodies]
    /\ faults = MaxFaults
    /\ log = <<>> /\ fs0 = fs /\ outcomes = <<>>
    /\ CrcIdle

\* The call: a fresh frame of download_png.
harness_call ==
    /\ mpc = "harness"
    /\ dpc = "idle"
    /\ Len(outcomes) < MaxCalls
    /\ dpc' = "check"
    /\ fs0' = fs
    /\ UNCHANGED <<code, out_file, retries, attempt, last_err, data, result>>
    /\ UNCHANGED <<mainVars, worldVars, log, outcomes, crcVars>>

\* The return: the caller receives (ok, mensaje) and the frame is gone.
harness_return ==
    /\ mpc = "harness"
    /\ dpc = "ret"
    /\ outcomes' = Append(outcomes, Outcome)
    /\ dpc' = "idle"
    /\ attempt' = 0 /\ last_err' = "" /\ data' = <<>> /\ result' = NoResult
    /\ log' = <<>>
    /\ UNCHANGED <<code, out_file, retries, fs0>>
    /\ UNCHANGED <<mainVars, worldVars, crcVars>>

NextFetch ==
    \/ harness_call
    \/ harness_return
    \/ download_png_cache_check
    \/ download_png_request
    \/ download_png_open_tmp
    \/ download_png_write
    \/ download_png_validate
    \/ download_png_replace
    \/ download_png_remove_bad
    \/ download_png_except
    \/ download_png_sleep
    \/ download_png_next

SpecFetch == InitFetch /\ [][NextFetch]_vars

----------------------------------------------------------------------------
\* main (lines 169-236).

SERIAL_WIDTH  == 3
TICKETS_MIN   == 116
TICKETS_MAX   == 951
TICKETS_WIDTH == 4
MAIN_RETRIES  == 2      \* retries=2 in the call of line 224

\* The greatest serial that line 188 lets through, off by one.
SERIAL_LIMIT_4_digits == 999 + 1

\* The greatest serial that line 188 lets through.
SERIAL_LIMIT == 999

\* What the prompts of lines 171-173 may return, sampled.
FixedSample == { <<49, 50, 51, 52, 53, 54>>,            \* "123456"
                 <<49, 48, 48, 48, 48, 48>> }           \* "100000"
StartSample == {0, 998, 999}

\* secrets.randbelow(n) returns a value in 0..n-1; the values drawn here.
RandSample == {0, 835}
randbelow(n) == {r \in RandSample : r < n}

\* What the transport may answer during a batch.
BatchEnv == [errors |-> {"timed out"}, bodies |-> {PNG_A, BAD_SIG}]

\* An empty directory, or one PNG left by an earlier run for the first
\* serial with one of the tickets.
BatchInitialFs(fx, st) ==
    { [q \in {} |-> <<>>] }
    \cup { LET b == fx \o fmt(st, SERIAL_WIDTH) \o fmt(r + TICKETS_MIN, TICKETS_WIDTH)
           IN  WriteFile([q \in {} |-> <<>>], png_path(b \o gs1_mod10_check_digit(b)), PNG_B)
           : r \in {0} }

Init ==
    /\ mpc = "gen"
    /\ fixed \in FixedSample
    /\ start_serial \in StartSample
    /\ qty \in 1..MaxQty
    /\ i = 0
    /\ generated = <<>> /\ txt = <<>>
    /\ total = 0 /\ ok = 0 /\ skip = 0 /\ fail = 0 /\ idx = 0
    /\ FrameIdle
    /\ code = <<>> /\ out_file = <<>> /\ retries = 0
    /\ fs \in BatchInitialFs(fixed, start_serial)
    /\ env = BatchEnv
    /\ faults = MaxFaults
    /\ log = <<>> /\ fs0 = fs /\ outcomes = <<>>
    /\ CrcIdle

\* Lines 186-201, one iteration that produces a code.
main_generate ==
    /\ mpc = "gen"
    /\ i < qty
    /\ start_serial + i <= SERIAL_LIMIT
    /\ \E r \in randbelow(TICKETS_MAX - TICKETS_MIN + 1) :
          LET serial_val == start_serial + i
              serial == fmt(serial_val, SERIAL_WIDTH)
              tickets_val == r + TICKETS_MIN
              tickets == fmt(tickets_val, TICKETS_WIDTH)
              base_13 == fixed \o serial \o tickets
              crc_1 == gs1_mod10_check_digit(base_13)
              full_14 == base_13 \o crc_1
          IN  /\ txt' = Append(txt, full_14)
              /\ generated' = Append(generated, full_14)
    /\ i' = i + 1
    /\ UNCHANGED <<mpc, fixed, start_serial, qty, total, ok, skip, fail, idx>>
    /\ UNCHANGED <<frameVars, worldVars, histVars, crcVars>>

\* main_range_error that only leaves the generation loop and goes on to the
\* downloads of the codes generated so far.
main_range_error_break ==
    /\ mpc = "gen"
    /\ i < qty
    /\ start_serial + i > SERIAL_LIMIT
    /\ mpc' = "loop"
    /\ idx' = 1
    /\ UNCHANGED <<fixed, start_serial, qty, i, generated, txt,
                   total, ok, skip, fail>>
    /\ UNCHANGED <<frameVars, worldVars, histVars, crcVars>>

\* Lines 186-189, the iteration whose serial is out of range: SystemExit.
main_range_error ==
    /\ mpc = "gen"
    /\ i < qty
    /\ start_serial + i > SERIAL_LIMIT
    /\ mpc' = "exit"
    /\ UNCHANGED <<fixed, start_serial, qty, i, generated, txt,
                   total, ok, skip, fail, idx>>
    /\ UNCHANGED <<frameVars, worldVars, histVars, crcVars>>

\* Lines 203-210: the generation loop is over, the counters start at 0.
main_start_downloads ==
    /\ mpc = "gen"
    /\ i = qty
    /\ mpc' = "loop"
    /\ total' = 0 /\ ok' = 0 /\ skip' = 0 /\ fail' = 0
    /\ idx' = 1
    /\ UNCHANGED <<fixed, start_serial, qty, i, generated, txt>>
    /\ UNCHANGED <<frameVars, worldVars, histVars, crcVars>>

\* Lines 212-224: the next code; a non-numeric one is skipped, any other is
\* handed to download_png.
main_next_code ==
    /\ mpc = "loop"
    /\ idx <= Len(generated)
    /\ total' = total + 1
    /\ IF ~isdigit(generated[idx])
       THEN /\ skip' = skip + 1
            /\ idx' = idx + 1
            /\ UNCHANGED <<mpc, frameVars, histVars>>
       ELSE /\ code' = generated[idx]
            /\ out_file' = png_path(generated[idx])
            /\ retries' = MAIN_RETRIES
            /\ dpc' = "check"
            /\ fs0' = fs
            /\ mpc' = "call"
            /\ UNCHANGED <<skip, idx, attempt, last_err, data, result, log, outcomes>>
    /\ UNCHANGED <<fixed, start_serial, qty, i, generated, txt, ok, fail>>
    /\ UNCHANGED <<worldVars, crcVars>>

\* main_count leaving the loop at the first failed download.
main_count_abort ==
    /\ mpc = "call"
    /\ dpc = "ret"
    /\ IF result.ok
       THEN ok' = ok + 1 /\ idx' = idx + 1 /\ UNCHANGED fail
       ELSE fail' = fail + 1 /\ idx' = Len(generated) + 1 /\ UNCHANGED ok
    /\ mpc' = "loop"
    /\ outcomes' = Append(outcomes, Outcome)
    /\ dpc' = "idle"
    /\ attempt' = 0 /\ last_err' = "" /\ data' = <<>> /\ result' = NoResult
    /\ log' = <<>>
    /\ UNCHANGED <<code, out_file, retries, fs0>>
    /\ UNCHANGED <<fixed, start_serial, qty, i, generated, txt, total, skip>>
    /\ UNCHANGED <<worldVars, crcVars>>

\* main_count counting a failed download as skipped.
main_count_skipping ==
    /\ mpc = "call"
    /\ dpc = "ret"
    /\ IF result.ok
       THEN ok' = ok + 1 /\ UNCHANGED <<skip, fail>>
       ELSE skip' = skip + 1 /\ UNCHANGED <<ok, fail>>
    /\ idx' = idx + 1
    /\ mpc' = "loop"
    /\ outcomes' = Append(outcomes, Outcome)
    /\ dpc' = "idle"
    /\ attempt' = 0 /\ last_err' = "" /\ data' = <<>> /\ result' = NoResult
    /\ log' = <<>>
    /\ UNCHANGED <<code, out_file, retries, fs0>>
    /\ UNCHANGED <<fixed, start_serial, qty, i, generated, txt, total>>
    /\ UNCHANGED <<worldVars, crcVars>>

\* main_count with the two counters swapped.
main_count_swapped ==
    /\ mpc = "call"
    /\ dpc = "ret"
    /\ IF result.ok
       THEN fail' = fail + 1 /\ UNCHANGED ok
       ELSE ok' = ok + 1 /\ UNCHANGED fail
    /\ idx' = idx + 1
    /\ mpc' = "loop"
    /\ outcomes' = Append(outcomes, Outcome)
    /\ dpc' = "idle"
    /\ attempt' = 0 /\ last_err' = "" /\ data' = <<>> /\ result' = NoResult
    /\ log' = <<>>
    /\ UNCHANGED <<code, out_file, retries, fs0>>
    /\ UNCHANGED <<fixed, start_serial, qty, i, generated, txt, total, skip>>
    /\ UNCHANGED <<worldVars, crcVars>>

\* Lines 224-229: download_png has returned; count the outcome.
main_count ==
    /\ mpc = "call"
    /\ dpc = "ret"
    /\ IF result.ok
       THEN ok' = ok + 1 /\ UNCHANGED fail
       ELSE fail' = fail + 1 /\ UNCHANGED ok
    /\ idx' = idx + 1
    /\ mpc' = "loop"
    /\ outcomes' = Append(outcomes, Outcome)
    /\ dpc' = "idle"
    /\ attempt' = 0 /\ last_err' = "" /\ data' = <<>> /\ result' = NoResult
    /\ log' = <<>>
    /\ UNCHANGED <<code, out_file, retries, fs0>>
    /\ UNCHANGED <<fixed, start_serial, qty, i, generated, txt, total, skip>>
    /\ UNCHANGED <<worldVars, crcVars>>

\* Lines 231-236: the summary.
main_summary ==
    /\ mpc = "loop"
    /\ idx > Len(generated)
    /\ mpc' = "done"
    /\ UNCHANGED <<fixed, start_serial, qty, i, generated, txt,
                   total, ok, skip, fail, idx>>
    /\ UNCHANGED <<frameVars, worldVars, histVars, crcVars>>

Next ==
    \/ main_generate
    \/ main_range_error
    \/ main_start_downloads
    \/ main_next_code
    \/ main_count
    \/ main_summary
    \/ download_png_cache_check
    \/ download_png_request
    \/ download_png_open_tmp
    \/ download_png_write
    \/ download_png_validate
    \/ download_png_replace
    \/ download_png_remove_bad
    \/ download_png_except
    \/ download_png_sleep
    \/ download_png_next

Spec == Init /\ [][Next]_vars

----------------------------------------------------------------------------
\* gs1_mod10_check_digit called on its own, on any short string over digits
\* and other characters, and on the 13-digit example.

CheckAlphabet == DigitChars \cup {32, 45, 97}      \* also " ", "-", "a"

RECURSIVE StringsUpTo(_)
StringsUpTo(n) ==
    IF n = 0 THEN { <<>> }
    ELSE LET shorter == StringsUpTo(n - 1)
         IN  shorter \cup { Append(t, c) : t \in shorter, c \in CheckAlphabet }

NotCalled == [called |-> FALSE, raised |-> FALSE, value |-> <<>>]

InitCheck ==
    /\ mpc = "crc"
    /\ MainIdle
    /\ FrameIdle
    /\ code = <<>> /\ out_file = <<>> /\ retries = 0
    /\ fs = [q \in {} |-> <<>>]
    /\ env = [errors |-> {}, bodies |-> {}]
    /\ faults = 0
    /\ log = <<>> /\ fs0 = fs /\ outcomes = <<>>
    /\ number_str \in StringsUpTo(MaxLen) \cup {EXAMPLE_13}
    /\ crc = NotCalled

\* crc = gs1_mod10_check_digit(number_str): the function has no path that
\* raises for a string argument.
gs1_call ==
    /\ mpc = "crc"
    /\ ~crc.called
    /\ crc' = [called |-> TRUE, raised |-> FALSE,
               value |-> gs1_mod10_check_digit(number_str)]
    /\ UNCHANGED <<number_str, mainVars, frameVars, worldVars, histVars>>

NextCheck == gs1_call

SpecCheck == InitCheck /\ [][NextCheck]_vars

----------------------------------------------------------------------------
\* Reading the log of the current call.

IsReq(e)   == e.ev \in {"req_err", "req_body"}
ReqIdx     == {k \in 1..Len(log) : IsReq(log[k])}
SleepIdx   == {k \in 1..Len(log) : log[k].ev = "sleep"}
NReq       == Cardinality(ReqIdx)
NSleep     == Cardinality(SleepIdx)
LastReq    == CHOOSE k \in ReqIdx : \A j \in ReqIdx : j <= k
AllReqsFailed == \A k \in ReqIdx : log[k].ev = "req_err"
Returned   == dpc = "ret"
InCall     == dpc # "idle"

\* A filesystem failure of the write path (open, write, read back, rename)
\* during attempt n.
WritePathFault(n) ==
    \E k \in 1..Len(log) :
        /\ log[k].n = n
        /\ log[k].ev \in {"fault_open", "fault_write", "fault_read", "fault_replace"}

\* A failure to open or to write the temp file during attempt n.
OpenOrWriteFault(n) ==
    \E k \in 1..Len(log) :
        log[k].n = n /\ log[k].ev \in {"fault_open", "fault_write"}

RemoveFault(n) ==
    \E k \in 1..Len(log) : log[k].n = n /\ log[k].ev = "fault_remove"

SameFile(f, g, p) == (exists(f, p) <=> exists(g, p)) /\ (exists(f, p) => f[p] = g[p])

CachedResult  == [ok |-> TRUE,  msg |-> <<"OK (ya existe)", out_file>>]
FetchedResult == [ok |-> TRUE,  msg |-> <<"OK", out_file>>]
NotPngResult  == [ok |-> FALSE, msg |-> <<"ERROR: descargado pero no parece PNG", code>>]

----------------------------------------------------------------------------
\* C1: a call made while a non-empty file exists at the destination returns
\* the cached success, has issued no HTTP request and has not slept, and the
\* destination and the temp path are as they were at the call, whatever the
\* pre-existing file holds.
C1_CachedNoRequest ==
    (InCall /\ exists(fs0, out_file) /\ Len(fs0[out_file]) > 0) =>
        /\ dpc \in {"check", "ret"}
        /\ log = <<>>
        /\ fs = fs0
        /\ Returned => result = CachedResult

\* C1 witness: a call has returned over a pre-existing non-PNG destination
\* and a stale temp file.
C1_Witness ==
    /\ Returned
    /\ exists(fs0, out_file) /\ fs0[out_file] = HTML
    /\ exists(fs0, tmp_file)
    /\ result.ok

\* C2: in every state of a call that began with no destination file, the
\* destination is absent or holds the complete body of the current attempt,
\* which starts with the PNG signature; anything else is at the temp path.
C2_DestinationNeverCorrupt ==
    (InCall /\ ~exists(fs0, out_file)) =>
        /\ DOMAIN fs \subseteq {out_file, tmp_file}
        /\ exists(fs, out_file) =>
              /\ ReqIdx # {}
              /\ log[LastReq].ev = "req_body"
              /\ fs[out_file] = log[LastReq].body
              /\ Len(fs[out_file]) >= 8
              /\ SubSeq(fs[out_file], 1, 8) = PNG_SIG

\* C2 witness: the call began with no destination, a partially written body
\* has been at the temp path, and the destination now holds a later body.
C2_Witness ==
    /\ Returned
    /\ ~exists(fs0, out_file)
    /\ exists(fs, out_file) /\ fs[out_file] = PNG_A
    /\ \E k \in 1..Len(log) : log[k].ev = "fault_write"

C4_AllAttemptsFail ==
    (Returned /\ ReqIdx # {} /\ AllReqsFailed) =>
        /\ NReq = retries + 1
        /\ \A j, k \in ReqIdx :
              j < k => \E m \in (j + 1)..(k - 1) : log[m].ev = "sleep"
        /\ result = [ok |-> FALSE,
                     msg |-> <<"ERROR: fallo descargando", code, log[LastReq].err>>]

\* C4 witness: retries = 2, three failed requests, the last error differing
\* from the first.
C4_Witness ==
    /\ Returned
    /\ retries = 2
    /\ AllReqsFailed /\ NReq = 3
    /\ log[LastReq].err # log[1].err
    /\ ~result.ok

C6_Claimed ==
    /\ \A k \in SleepIdx : log[k].n < retries + 1
    /\ (Returned /\ ReqIdx # {} /\ AllReqsFailed) => NSleep = NReq - 1

----------------------------------------------------------------------------
\* The check digit and the code layout as the specification states them.

\* The sum of the digits of s from position k on, the rightmost digit
\* weighted 3, its left neighbour 1, and so on alternately.
RECURSIVE WeightedSum(_, _)
WeightedSum(s, k) ==
    IF k > Len(s) THEN 0
    ELSE (s[k] - 48) * (IF (Len(s) - k) % 2 = 0 THEN 3 ELSE 1) + WeightedSum(s, k + 1)

ExpectedCheckDigit(s) == (10 - (WeightedSum(s, 1) % 10)) % 10

\* The number a string of ASCII digits denotes.
RECURSIVE ParseDigits(_)
ParseDigits(s) ==
    IF Len(s) = 0 THEN 0
    ELSE 10 * ParseDigits(SubSeq(s, 1, Len(s) - 1)) + (s[Len(s)] - 48)

\* c is the k-th code of the batch: 14 digits, the fixed part, the serial
\* start_serial + k - 1 on 3 digits, a ticket in 116..951 on 4 digits, and
\* the check digit of those 13 digits.
IsKthCode(c, k) ==
    /\ Len(c) = 14
    /\ isdigit(c)
    /\ SubSeq(c, 1, 6) = fixed
    /\ ParseDigits(SubSeq(c, 7, 9)) = start_serial + k - 1
    /\ ParseDigits(SubSeq(c, 10, 13)) \in 116..951
    /\ c[14] = 48 + ExpectedCheckDigit(SubSeq(c, 1, 13))

\* C7: for a non-empty string of ASCII digits the call returns, without
\* raising, the one character of the digit (10 - (S mod 10)) mod 10, S being
\* the sum weighted 3,1,3,1,... from the rightmost digit; for
\* "1234561010500" that is "0".
C7_CheckDigitFormula ==
    (crc.called /\ isdigit(number_str)) =>
        /\ ~crc.raised
        /\ crc.value = <<48 + ExpectedCheckDigit(number_str)>>
        /\ number_str = EXAMPLE_13 => crc.value = <<48>>

\* C7 witness: the function has been called on "1234561010500" and gave "0".
C7_Witness ==
    /\ crc.called
    /\ number_str = EXAMPLE_13
    /\ crc.value = <<48>>

\* C8 as claimed: for the empty string and for a string with a character
\* that is no ASCII digit, the call raises and yields no check digit.
C8_Claimed ==
    (crc.called /\ ~isdigit(number_str)) =>
        /\ crc.raised
        /\ crc.value = <<>>

\* C9: when start_serial + qty - 1 <= 999, generation never fails, every
\* code emitted so far is the code of its position (so serials go up by 1),
\* the file holds the same lines, and once generation is over exactly qty
\* codes exist.
C9_GeneratesCountCodes ==
    (mpc \in {"gen", "exit", "loop", "call", "done"}
        /\ start_serial + qty - 1 <= 999) =>
        /\ mpc # "exit"
        /\ Len(generated) = i
        /\ txt = generated
        /\ \A k \in 1..Len(generated) : IsKthCode(generated[k], k)
        /\ mpc # "gen" => Len(generated) = qty

\* C9 witness: a finished run that generated two codes, serials 998 and 999,
\* with different tickets.
C9_Witness ==
    /\ mpc = "done"
    /\ start_serial = 998 /\ qty = 2 /\ Len(generated) = 2
    /\ SubSeq(generated[2], 7, 9) = <<57, 57, 57>>
    /\ SubSeq(generated[1], 10, 13) # SubSeq(generated[2], 10, 13)

\* C10: when start_serial + qty - 1 > 999, the run never gets past
\* generation and never calls download_png, every code emitted is the code of
\* its position with a serial of at most 999, and once the range error is
\* raised exactly 1000 - start_serial codes are in the list and in the file.
C10_RangeErrorStopsGeneration ==
    (mpc \in {"gen", "exit", "loop", "call", "done"}
        /\ start_serial + qty - 1 > 999) =>
        /\ mpc \in {"gen", "exit"}
        /\ dpc = "idle"
        /\ Len(generated) = i
        /\ txt = generated
        /\ \A k \in 1..Len(generated) :
              IsKthCode(generated[k], k) /\ start_serial + k - 1 <= 999
        /\ mpc = "exit" => Len(generated) = 1000 - start_serial

\* C10 witness: the range error has been raised after the code of serial 999
\* was emitted.
C10_Witness ==
    /\ mpc = "exit"
    /\ start_serial + qty - 1 > 999
    /\ Len(generated) >= 1
    /\ SubSeq(generated[Len(generated)], 7, 9) = <<57, 57, 57>>
    /\ txt = generated

----------------------------------------------------------------------------
\* The download loop.

InDownloads == mpc \in {"loop", "call", "done"}

\* C11: the calls of download_png made so far are those for the first codes
\* of the list, one each and in list order, each on "./<code>.png"; the call
\* in progress is the one for the next code; a failed call is followed by the
\* call for the next code; and at the end every code has had its call and
\* total is the number of codes.
C11_OneCallPerCodeInOrder ==
    InDownloads =>
        /\ Len(outcomes) <= Len(generated)
        /\ \A k \in 1..Len(outcomes) :
              /\ outcomes[k].code = generated[k]
              /\ outcomes[k].out_file = <<46, 47>> \o generated[k] \o <<46, 112, 110, 103>>
        /\ mpc = "call" =>
              /\ dpc # "idle"
              /\ idx = Len(outcomes) + 1
              /\ code = generated[idx]
              /\ out_file = <<46, 47>> \o generated[idx] \o <<46, 112, 110, 103>>
        /\ mpc = "loop" => dpc = "idle" /\ idx = Len(outcomes) + 1
        /\ mpc = "done" =>
              /\ Len(outcomes) = Len(generated)
              /\ total = Len(generated)

\* C11 witness: a finished batch of two codes whose first download failed
\* and whose second download fetched its file.
C11_Witness ==
    /\ mpc = "done"
    /\ Len(generated) = 2 /\ Len(outcomes) = 2
    /\ ~outcomes[1].res.ok
    /\ outcomes[2].res = [ok |-> TRUE, msg |-> <<"OK", outcomes[2].out_file>>]

OkCalls     == {k \in 1..Len(outcomes) : outcomes[k].res.ok}
FailedCalls == {k \in 1..Len(outcomes) : ~outcomes[k].res.ok}

\* Every code of the list has a non-empty file at "./<code>.png".
EveryCodeHasFile ==
    \A k \in 1..Len(generated) :
        LET p == <<46, 47>> \o generated[k] \o <<46, 112, 110, 103>>
        IN  exists(fs, p) /\ Len(fs[p]) > 0

AllSuccessSummary ==
    /\ total = Len(generated)
    /\ ok = Len(generated)
    /\ skip = 0
    /\ fail = 0
    /\ EveryCodeHasFile

TempWriteOrRenameFailed ==
    \E k \in 1..Len(log) : log[k].ev \in {"fault_write", "fault_replace"}

\* C13 as claimed: a call in which writing the temp file or renaming it onto
\* the destination failed returns failed and leaves the destination path as
\* it was before the call, and the batch is then at its counting step.
C13_Claimed ==
    (mpc = "call" /\ Returned /\ TempWriteOrRenameFailed) =>
        /\ ~result.ok
        /\ SameFile(fs, fs0, out_file)

\* An earlier call with the same code and destination returned fetched.
FetchedBefore ==
    \E k \in 1..Len(outcomes) :
        /\ outcomes[k].code = code
        /\ outcomes[k].out_file = out_file
        /\ outcomes[k].res = FetchedResult

C14_LaterCallState ==
    /\ FetchedBefore =>
          /\ dpc \in {"idle", "check", "ret"}
          /\ log = <<>>
          /\ exists(fs, out_file) /\ Len(fs[out_file]) > 0
          /\ Returned => result = CachedResult
          /\ \A k \in 1..Len(outcomes) :
                (\E j \in 1..(k - 1) : outcomes[j].res = FetchedResult)
                    => outcomes[k].res = CachedResult
    /\ (InCall /\ NReq > 0) => ~(exists(fs0, out_file) /\ Len(fs0[out_file]) > 0)

C14_DestinationKept ==
    FetchedBefore => (exists(fs', out_file) /\ fs'[out_file] = fs[out_file])

\* C14: once a call has returned fetched, every later call with the same
\* code and destination returns cached with no HTTP request, and no step
\* changes a byte of the destination; and a call issues requests only when
\* there was no non-empty destination file at its start.
C14_FetchedThenCached ==
    /\ []C14_LaterCallState
    /\ [][C14_DestinationKept]_vars

\* C14 witness: the first call fetched the PNG, the second returned cached
\* and the destination still holds a PNG.
C14_Witness ==
    /\ mpc = "harness"
    /\ Len(outcomes) = 2
    /\ outcomes[1].res = FetchedResult
    /\ outcomes[2].res = CachedResult
    /\ exists(fs, out_file) /\ is_png_content(fs[out_file])

\* No download_png call has been made or is under way, and nothing has been
\* sent or written on its behalf.
NoFetchYet ==
    /\ dpc = "idle"
    /\ log = <<>>
    /\ outcomes = <<>>
    /\ fs = fs0

C15_GenerationFirst ==
    /\ mpc \in {"gen", "exit"} => NoFetchYet
    /\ ~NoFetchYet => (i = qty /\ Len(generated) = qty)

\* C15: while the generation loop runs, and for ever after a range error, no
\* download_png call is made and no HTTP request is issued; any call finds
\* all qty codes generated; the range error ends the run.
C15_NoFetchBeforeGenerationEnds ==
    /\ []C15_GenerationFirst
    /\ [][mpc # "exit"]_vars

\* C15 witness: the run ended with the range error after a code had been
\* generated, and no request was made for it.
C15_Witness ==
    /\ mpc = "exit"
    /\ Len(generated) >= 1
    /\ Len(generated) < qty
    /\ NoFetchYet

\* Between iterations the counters add up; inside one, processed is one ahead.
C16_CountersAddUp ==
    /\ mpc \in {"loop", "done"} =>
          /\ total = ok + skip + fail
          /\ total = idx - 1
    /\ mpc = "call" => total = ok + skip + fail + 1 /\ total = idx
    /\ skip = 0

\* One step of the program moves the counters as one iteration allows: none
\* decreases, processed grows by at most 1, and by the end of the iteration
\* exactly one of ok, skipped, failed has grown by exactly 1.
C16_CounterStep ==
    /\ total' \in {total, total + 1}
    /\ <<ok', skip', fail'>> \in
          {<<ok, skip, fail>>, <<ok + 1, skip, fail>>,
           <<ok, skip + 1, fail>>, <<ok, skip, fail + 1>>}
    /\ (mpc = "loop" /\ mpc' = "call") =>
          total' = total + 1 /\ <<ok', skip', fail'>> = <<ok, skip, fail>>
    /\ (mpc = "call" /\ mpc' = "loop") =>
          total' = total /\ ok' + skip' + fail' = ok + skip + fail + 1
    /\ (mpc = "loop" /\ mpc' = "loop" /\ idx' # idx) =>
          total' = total + 1 /\ ok' + skip' + fail' = ok + skip + fail + 1
    /\ (mpc' = mpc /\ idx' = idx) =>
          <<total', ok', skip', fail'>> = <<total, ok, skip, fail>>

\* C16: after every iteration of the download loop processed = ok + skipped +
\* failed; no counter ever decreases; an iteration adds exactly 1 to
\* processed and exactly 1 to exactly one of ok, skipped, failed; and with a
\* fixed part of 6 digits skipped stays 0.
C16_CounterInvariant ==
    /\ []C16_CountersAddUp
    /\ [][C16_CounterStep]_vars

\* C16 witness: a finished batch of two codes, one ok and one failed.
C16_Witness ==
    /\ mpc = "done"
    /\ total = 2 /\ ok = 1 /\ skip = 0 /\ fail = 1
    /\ isdigit(fixed) /\ Len(fixed) = 6

\* C17 as claimed: a call makes at most retries + 1 HTTP requests, returns
\* cached, fetched or failed, and makes no request after one whose body was
\* written to the temp file and validated.
C17_Claimed ==
    /\ NReq <= retries + 1
    /\ Returned => (result \in {CachedResult, FetchedResult} \/ ~result.ok)
    /\ \A j, k \in ReqIdx :
          (j < k /\ log[j].ev = "req_body") => OpenOrWriteFault(log[j].n)

NoRemoveFault == \A k \in 1..Len(log) : log[k].ev # "fault_remove"

\* C18: when a call that made at least one attempt returns and no deletion
\* failed, no file exists at the temp path, whatever the outcome and whether
\* or not a temp file was there before the call; a call that returns cached
\* leaves the temp path as it was.
C18_NoTempFileLeft ==
    /\ (Returned /\ ReqIdx # {} /\ NoRemoveFault) => ~exists(fs, tmp_file)
    /\ (Returned /\ result = CachedResult) =>
          /\ ReqIdx = {}
          /\ SameFile(fs, fs0, tmp_file)

\* C18 witness: a stale temp file was there before the call, the call made
\* requests that all failed, and on return the temp file is gone.
C18_Witness ==
    /\ Returned
    /\ exists(fs0, tmp_file)
    /\ ReqIdx # {} /\ AllReqsFailed
    /\ ~result.ok
    /\ NoRemoveFault
    /\ ~exists(fs, tmp_file)

\* The weighted digit sum of a full code t: its last digit (the check digit)
\* weighs 1, the digit before it 3, then 1, 3, ... leftward.
RECURSIVE FullWeightedSum(_, _)
FullWeightedSum(t, k) ==
    IF k > Len(t) THEN 0
    ELSE (t[k] - 48) * (IF (Len(t) - k) % 2 = 0 THEN 1 ELSE 3)
            + FullWeightedSum(t, k + 1)

\* s with the digit at position p replaced by the digit character d.
Substitute(s, p, d) == [s EXCEPT ![p] = d]

\* C19: for a digit string s, s followed by its check digit has a weighted
\* digit sum divisible by 10, and replacing any one digit of s by a different
\* digit gives a different check digit, so that a code with one digit
\* substituted no longer has a weighted sum divisible by 10.
C19_SingleSubstitutionDetected ==
    (crc.called /\ isdigit(number_str)) =>
        /\ Len(crc.value) = 1 /\ isdigit(crc.value)
        /\ FullWeightedSum(number_str \o crc.value, 1) % 10 = 0
        /\ \A p \in 1..Len(number_str) :
              \A d \in DigitChars \ {number_str[p]} :
                  /\ gs1_mod10_check_digit(Substitute(number_str, p, d)) # crc.value
                  /\ FullWeightedSum(Substitute(number_str, p, d) \o crc.value, 1) % 10 # 0
        /\ \A d \in DigitChars \ {crc.value[1]} :
              FullWeightedSum(number_str \o <<d>>, 1) % 10 # 0

\* C19 witness: the check digit of a string of 3 digits has been computed and
\* differs from the one of the string with its middle digit changed.
C19_Witness ==
    /\ crc.called
    /\ number_str = <<49, 50, 51>>
    /\ crc.value = <<54>>
    /\ gs1_mod10_check_digit(<<49, 55, 51>>) = <<49>>

====
